---- MODULE Spec2Model ----
(***************************************************************************)
(* Model of the NFL prediction pipeline: the Flask handler get_matchups    *)
(* (three CSV tables, pandas inner merge, rounding to percentages) and the *)
(* React component MatchupList (single GET on mount, groupMatchupsByWeek,  *)
(* rendering of the weeks).                                                *)
(*                                                                         *)
(* Probabilities are exact decimals: a raw probability is an integer in    *)
(* units of 1e-5 (73214 is 0.73214) and a percentage is an integer in      *)
(* units of 0.01 (7321 is 73.21).                                          *)
(***************************************************************************)
EXTENDS Integers, Sequences, FiniteSets, TLC

VARIABLES df_rf, df_gb, df_logreg, pc, response, weeks, errorLogged, matchups

vars == <<df_rf, df_gb, df_logreg, pc, response, weeks, errorLogged, matchups>>

(* ------------------------------ bounds --------------------------------- *)

MaxRows == 2

MaxLen == 275

NumDistinct == 3

(* --------------------------- helper arithmetic ------------------------- *)

Min(a, b) == IF a <= b THEN a ELSE b

Max(a, b) == IF a >= b THEN a ELSE b

(* ------------------------- MatchupList.js ------------------------------ *)

weekMatchupCounts == <<16, 16, 16, 16, 14, 14, 15, 16, 15, 14, 14, 13, 16, 13, 16, 16, 16, 16>>

\* slice that treats its end index as inclusive
sliceInclusiveEnd(arr, start, end) ==
  SubSeq(arr, Min(start, Len(arr)) + 1, Min(end + 1, Len(arr)))

\* slice that treats its second argument as a count, like substr
sliceCount(arr, start, end) ==
  SubSeq(arr, Min(start, Len(arr)) + 1, Min(start + end, Len(arr)))

\* Array.prototype.slice(start, end) for 0 <= start <= end: the elements at
\* the 0-based positions start .. end-1, both clipped to the array length
slice(arr, start, end) ==
  SubSeq(arr, Min(start, Len(arr)) + 1, Min(end, Len(arr)))

\* week numbered by the 0-based loop index
weekObject0(weekIndex, weekMatchups) ==
  [week |-> weekIndex, matchups |-> weekMatchups]

\* the object pushed per iteration: { week: weekIndex + 1, matchups }
weekObject(weekIndex, weekMatchups) ==
  [week |-> weekIndex + 1, matchups |-> weekMatchups]

RECURSIVE forEachWeek(_, _, _, _)
\* weekMatchupCounts.forEach((count, weekIndex) => ...), from weekIndex on
forEachWeek(ms, weekIndex, startIndex, acc) ==
  IF weekIndex >= Len(weekMatchupCounts)
  THEN acc
  ELSE LET count == weekMatchupCounts[weekIndex + 1]
           weekMatchups == slice(ms, startIndex, startIndex + count)
       IN  forEachWeek(ms, weekIndex + 1, startIndex + count,
                       Append(acc, weekObject(weekIndex, weekMatchups)))

RECURSIVE forEachWeekUntilExhausted(_, _, _, _)
\* a loop that emits no week once the input is used up
forEachWeekUntilExhausted(ms, weekIndex, startIndex, acc) ==
  IF weekIndex >= Len(weekMatchupCounts) \/ startIndex >= Len(ms)
  THEN acc
  ELSE LET count == weekMatchupCounts[weekIndex + 1]
           weekMatchups == slice(ms, startIndex, startIndex + count)
       IN  forEachWeekUntilExhausted(ms, weekIndex + 1, startIndex + count,
                       Append(acc, weekObject(weekIndex, weekMatchups)))

groupStopsWhenExhausted(ms) == forEachWeekUntilExhausted(ms, 0, 0, <<>>)

groupMatchupsByWeek(ms) == forEachWeek(ms, 0, 0, <<>>)

\* Matchup.js: one card per matchup
Matchup(m) ==
  <<"matchup", m.Home, m.Visitor, m.RF_HomeWinProbability,
    m.GB_HomeWinProbability, m.LogReg_HomeWinProbability>>

RECURSIVE renderMatchups(_)
renderMatchups(ms) ==
  IF ms = <<>> THEN <<>> ELSE <<Matchup(Head(ms))>> \o renderMatchups(Tail(ms))

\* a week section that is left out when the week has no matchups
weekSectionNonEmptyOnly(w) ==
  IF w.matchups = <<>> THEN <<>>
  ELSE <<<<"h2", "Week", w.week>>>> \o renderMatchups(w.matchups)

\* <div className="week-section"><h2>Week n</h2> cards </div>
weekSection(w) == <<<<"h2", "Week", w.week>>>> \o renderMatchups(w.matchups)

RECURSIVE Render(_)
\* the children of <div className="matchup-list">
Render(ws) ==
  IF ws = <<>> THEN <<>> ELSE weekSection(Head(ws)) \o Render(Tail(ws))

(* ------------------------------ app.py --------------------------------- *)

RFCol == "RF_HomeWinProbability"

GBCol == "GB_HomeWinProbability"

LogRegCol == "LogReg_HomeWinProbability"

\* rows of upcoming_predictions_rf.csv that a run may contain
RFRows ==
  { [Home |-> "A", Visitor |-> "B", RF_HomeWinProbability |-> 73210],
    [Home |-> "A", Visitor |-> "B", RF_HomeWinProbability |-> 150000],
    [Home |-> "A", Visitor |-> "D", RF_HomeWinProbability |-> 73214],
    [Home |-> "C", Visitor |-> "D", RF_HomeWinProbability |-> 500] }

GBRows ==
  { [Home |-> "A", Visitor |-> "B", GB_HomeWinProbability |-> 60026],
    [Home |-> "A", Visitor |-> "D", GB_HomeWinProbability |-> -2000],
    [Home |-> "C", Visitor |-> "D", GB_HomeWinProbability |-> 100000] }

LogRegRows ==
  { [Home |-> "A", Visitor |-> "B", LogReg_HomeWinProbability |-> 55000],
    [Home |-> "A", Visitor |-> "D", LogReg_HomeWinProbability |-> 0],
    [Home |-> "C", Visitor |-> "D", LogReg_HomeWinProbability |-> 99999] }

SeqsUpTo(S, n) == UNION { [1..k -> S] : k \in 0..n }

\* no readable file at the path: pd.read_csv raises
Missing == [readable |-> FALSE, rows |-> <<>>]

\* what pd.read_csv finds: a table (possibly with zero rows), or no file
Files(rows) ==
  { [readable |-> TRUE, rows |-> t] : t \in SeqsUpTo(rows, MaxRows) } \cup {Missing}

RECURSIVE select(_, _)
\* df[[cols]]
select(df, cols) ==
  IF df = <<>> THEN <<>>
  ELSE <<[c \in cols |-> Head(df)[c]]>> \o select(Tail(df), cols)

\* rows that agree on Home only
sameHome(l, r) == l.Home = r.Home

\* on=['Home', 'Visitor']
sameKey(l, r) == l.Home = r.Home /\ l.Visitor = r.Visitor

\* the joined row: the key and the columns of both sides
joinRows(l, r) == l @@ r

RECURSIVE matchesOf(_, _)
\* the rows of right that join with the left row l, in right's order
matchesOf(l, right) ==
  IF right = <<>> THEN <<>>
  ELSE (IF sameKey(l, Head(right)) THEN <<joinRows(l, Head(right))>> ELSE <<>>)
       \o matchesOf(l, Tail(right))

RECURSIVE merge(_, _)
\* left.merge(right, on=['Home','Visitor']): inner join, order of the left
\* keys, one output row per pair of matching rows
merge(left, right) ==
  IF left = <<>> THEN <<>>
  ELSE matchesOf(Head(left), right) \o merge(Tail(left), right)

\* round(x * 100, 2) for x = raw / 100000: raw / 10 rounded half to even
round2(raw) ==
  LET q == raw \div 10
      r == raw % 10
  IN  IF r > 5 \/ (r = 5 /\ q % 2 = 1) THEN q + 1 ELSE q

RECURSIVE applyRound(_, _)
\* merged_df[col] = merged_df[col].apply(lambda x: round(x * 100, 2))
applyRound(df, col) ==
  IF df = <<>> THEN <<>>
  ELSE <<[Head(df) EXCEPT ![col] = round2(@)]>> \o applyRound(Tail(df), col)

\* the body of the handler once the three files are read
merged_records(rf, gb, lr) ==
  LET m == merge(merge(select(rf, {"Home", "Visitor", RFCol}),
                       select(gb, {"Home", "Visitor", GBCol})),
                 select(lr, {"Home", "Visitor", LogRegCol}))
  IN  applyRound(applyRound(applyRound(m, RFCol), GBCol), LogRegCol)

NoResponse == [status |-> -1, data |-> <<>>]

\* a handler that answers with an error when there is nothing to return
get_matchups_response_or_404(rf, gb, lr) ==
  IF ~rf.readable \/ ~gb.readable \/ ~lr.readable
  THEN [status |-> 500, data |-> <<>>]
  ELSE IF merged_records(rf.rows, gb.rows, lr.rows) = <<>>
       THEN [status |-> 500, data |-> <<>>]
       ELSE [status |-> 200, data |-> merged_records(rf.rows, gb.rows, lr.rows)]

\* GET /api/matchups: 200 with the records, or 500 when read_csv raises
get_matchups_response(rf, gb, lr) ==
  IF ~rf.readable \/ ~gb.readable \/ ~lr.readable
  THEN [status |-> 500, data |-> <<>>]
  ELSE [status |-> 200, data |-> merged_records(rf.rows, gb.rows, lr.rows)]

(* ----------------------------- pipeline -------------------------------- *)

Init ==
  /\ df_rf \in Files(RFRows)
  /\ df_gb \in Files(GBRows)
  /\ df_logreg \in Files(LogRegRows)
  /\ pc = "unmounted"
  /\ response = NoResponse
  /\ weeks = <<>>
  /\ errorLogged = FALSE
  /\ matchups = <<>>

\* first render with useState([]) and the effect issuing the GET
Mount ==
  /\ pc = "unmounted"
  /\ pc' = "pending"
  /\ weeks' = <<>>
  /\ UNCHANGED <<df_rf, df_gb, df_logreg, response, errorLogged, matchups>>

\* the server handles the request
get_matchups ==
  /\ pc = "pending"
  /\ response = NoResponse
  /\ response' = get_matchups_response(df_rf, df_gb, df_logreg)
  /\ UNCHANGED <<df_rf, df_gb, df_logreg, pc, weeks, errorLogged, matchups>>

\* the request never reaches the server: axios rejects
NetworkError ==
  /\ pc = "pending"
  /\ response = NoResponse
  /\ response' = [status |-> 0, data |-> <<>>]
  /\ UNCHANGED <<df_rf, df_gb, df_logreg, pc, weeks, errorLogged, matchups>>

\* .then(response => setWeeks(groupMatchupsByWeek(response.data)))
ThenHandler ==
  /\ pc = "pending"
  /\ response.status = 200
  /\ matchups' = response.data
  /\ weeks' = groupMatchupsByWeek(response.data)
  /\ pc' = "done"
  /\ UNCHANGED <<df_rf, df_gb, df_logreg, response, errorLogged>>

\* .catch(error => console.error(...))
CatchHandler ==
  /\ pc = "pending"
  /\ response.status \in {0, 500}
  /\ errorLogged' = TRUE
  /\ pc' = "done"
  /\ UNCHANGED <<df_rf, df_gb, df_logreg, response, weeks, matchups>>

Next == Mount \/ get_matchups \/ NetworkError \/ ThenHandler \/ CatchHandler

Spec == Init /\ [][Next]_vars

(* ----------------------- groupMatchupsByWeek alone --------------------- *)

\* arrays of every length up to MaxLen: all elements distinct, or repeating
PartitionInputs ==
  { [i \in 1..n |-> i] : n \in 0..MaxLen }
    \cup { [i \in 1..n |-> i % NumDistinct] : n \in 0..MaxLen }

InitWeeks ==
  /\ matchups \in PartitionInputs
  /\ pc = "call"
  /\ weeks = <<>>
  /\ df_rf = Missing
  /\ df_gb = Missing
  /\ df_logreg = Missing
  /\ response = NoResponse
  /\ errorLogged = FALSE

CallGroupMatchupsByWeek ==
  /\ pc = "call"
  /\ weeks' = groupMatchupsByWeek(matchups)
  /\ pc' = "returned"
  /\ UNCHANGED <<df_rf, df_gb, df_logreg, response, errorLogged, matchups>>

NextWeeks == CallGroupMatchupsByWeek

SpecWeeks == InitWeeks /\ [][NextWeeks]_vars

(* ------------------------- notions of the claims ----------------------- *)

NumWeeks == Len(weekMatchupCounts)

RECURSIVE SumTo(_)
\* the sum of the first i week counts: the 0-based offset of week i+1
SumTo(i) == IF i = 0 THEN 0 ELSE SumTo(i - 1) + weekMatchupCounts[i]

Offset(i) == SumTo(i - 1)

TotalCount == SumTo(NumWeeks)

Remaining(i) == Len(matchups) - Offset(i)

RECURSIVE ConcatWeeks(_)
ConcatWeeks(ws) ==
  IF ws = <<>> THEN <<>> ELSE Head(ws).matchups \o ConcatWeeks(Tail(ws))

KeyOf(r) == <<r.Home, r.Visitor>>

KeySeq(t) == [i \in 1..Len(t) |-> KeyOf(t[i])]

KeySet(t) == { KeyOf(t[i]) : i \in 1..Len(t) }

HasDuplicateKey(t) ==
  \E i, j \in 1..Len(t) : i < j /\ KeyOf(t[i]) = KeyOf(t[j])

RECURSIVE FirstOccurrences(_)
\* a sequence without its repeated elements, first occurrences kept
FirstOccurrences(s) ==
  IF s = <<>> THEN <<>>
  ELSE LET init == FirstOccurrences(SubSeq(s, 1, Len(s) - 1))
           last == s[Len(s)]
       IN  IF \E i \in 1..Len(init) : init[i] = last THEN init
           ELSE Append(init, last)

AllReadable == df_rf.readable /\ df_gb.readable /\ df_logreg.readable

CommonKeys == KeySet(df_rf.rows) \cap KeySet(df_gb.rows) \cap KeySet(df_logreg.rows)

InCommon(k) == k \in CommonKeys

ScoreCols == {RFCol, GBCol, LogRegCol}

EmptyWeeks == [i \in 1..NumWeeks |-> [week |-> i, matchups |-> <<>>]]

ServerAnswered == response.status \in {200, 500}

(* ------------------------------- C1 ------------------------------------ *)

\* C1: the matchups of all returned weeks, concatenated in week order, are
\* exactly the first min(sum of the counts, length) elements of the input
C1_ConcatIsPrefix ==
  pc = "returned" =>
    ConcatWeeks(weeks) = SubSeq(matchups, 1, Min(TotalCount, Len(matchups)))

C1_Witness ==
  /\ pc = "returned"
  /\ Len(matchups) > TotalCount
  /\ Len(ConcatWeeks(weeks)) = TotalCount

(* ------------------------------- C2 ------------------------------------ *)

C10_OneWeekPerCount ==
  [][ (pc = "call" /\ pc' = "returned") =>
        /\ matchups' = matchups
        /\ Len(weeks') = NumWeeks
        /\ \A i \in 1..NumWeeks :
             LET n == Max(0, Min(Offset(i) + weekMatchupCounts[i], Len(matchups))
                             - Offset(i))
             IN  /\ weeks'[i].week = i
                 /\ Len(weeks'[i].matchups) = n
                 /\ \A j \in 1..n :
                      weeks'[i].matchups[j] = matchups[Offset(i) + j] ]_vars

C10_Witness ==
  /\ pc = "returned"
  /\ matchups = <<>>
  /\ Len(weeks) = NumWeeks

(* ------------------------------- C3 ------------------------------------ *)

\* C3: the merged output holds exactly the keys common to the three
\* tables, each once, in the order of the RF table
C3_CommonKeysOnceInRFOrder ==
  response.status = 200 =>
    KeySeq(response.data)
      = SelectSeq(FirstOccurrences(KeySeq(df_rf.rows)), InCommon)

(* ------------------------------- C4 ------------------------------------ *)

\* C4: every merged record has a key present in all three tables and
\* carries, for each model, the score of a row of that model's table
\* with the same key
C4_InnerJoin ==
  response.status = 200 =>
    \A k \in 1..Len(response.data) :
      LET rec == response.data[k]
      IN  /\ DOMAIN rec = {"Home", "Visitor"} \cup ScoreCols
          /\ KeyOf(rec) \in CommonKeys
          /\ \E i \in 1..Len(df_rf.rows) :
               /\ KeyOf(df_rf.rows[i]) = KeyOf(rec)
               /\ rec[RFCol] = round2(df_rf.rows[i][RFCol])
          /\ \E i \in 1..Len(df_gb.rows) :
               /\ KeyOf(df_gb.rows[i]) = KeyOf(rec)
               /\ rec[GBCol] = round2(df_gb.rows[i][GBCol])
          /\ \E i \in 1..Len(df_logreg.rows) :
               /\ KeyOf(df_logreg.rows[i]) = KeyOf(rec)
               /\ rec[LogRegCol] = round2(df_logreg.rows[i][LogRegCol])

C4_Witness ==
  /\ response.status = 200
  /\ response.data # <<>>
  /\ KeySet(df_rf.rows) \ CommonKeys # {}
  /\ KeySet(df_gb.rows) \ CommonKeys # {}

(* ------------------------------- C5 ------------------------------------ *)

\* C5: when a table holds two rows with the same key, the handler does
\* not answer with a merged output
C5_DuplicateKeyRejected ==
  ( /\ AllReadable
    /\ ServerAnswered
    /\ \/ HasDuplicateKey(df_rf.rows)
       \/ HasDuplicateKey(df_gb.rows)
       \/ HasDuplicateKey(df_logreg.rows) )
  => response.status # 200

(* ------------------------------- C6 ------------------------------------ *)

AllEmpty ==
  /\ AllReadable
  /\ df_rf.rows = <<>> /\ df_gb.rows = <<>> /\ df_logreg.rows = <<>>

C8_FailureDistinctFromEmpty ==
  pc = "done" =>
    /\ response.status # 200 =>
         (errorLogged /\ weeks = <<>> /\ Render(weeks) = <<>>)
    /\ (response.status = 200 /\ response.data = <<>>) =>
         (~errorLogged /\ Render(weeks) # <<>>)

C8_Witness ==
  /\ pc = "done"
  /\ response.status = 500
  /\ errorLogged
  /\ ~df_gb.readable

(* ------------------------------- C9 ------------------------------------ *)

\* C9: every score of a merged output lies between 0 and 100 percent
C9_ScoresWithinRange ==
  response.status = 200 =>
    \A k \in 1..Len(response.data) :
      \A c \in ScoreCols :
        0 <= response.data[k][c] /\ response.data[k][c] <= 10000

====
